---------------------------- MODULE Spec2Model ----------------------------
(***************************************************************************)
(* A model of the document indexer: the two text chunkers of               *)
(* index_documents.py, the ranking loop of src/search.py and the embedding *)
(* backfill of src/embedder.py over the store of src/db.py.                *)
(*                                                                         *)
(* A Python str is a sequence of one-character strings.  Each component    *)
(* has its own variables and its own specification; the variables of the   *)
(* other components stay at their idle values.                             *)
(***************************************************************************)
EXTENDS Integers, Sequences, FiniteSets, TLC

VARIABLES
    sText, sMaxChars, sSentences, sCurrent, sChunks, sPc,   \* chunk_by_sentences
    fText, fChunkSize, fOverlap, fStart, fChunks, fPc,      \* chunk_fixed_size
    rQuery, rChunks, rTopK, rNext, rScored, rSkipped, rOut, rPc,  \* search.py main
    store,                                      \* the table document_chunks
    pc, rows, pos, vec, updated, skipped, out,  \* embedder.py main, per run
    nwrites, overlapped                         \* what the store has observed

sentVars == <<sText, sMaxChars, sSentences, sCurrent, sChunks, sPc>>
fixedVars == <<fText, fChunkSize, fOverlap, fStart, fChunks, fPc>>
rankVars == <<rQuery, rChunks, rTopK, rNext, rScored, rSkipped, rOut, rPc>>
runVars == <<pc, rows, pos, vec, updated, skipped, out>>
backfillVars == <<store, runVars, nwrites, overlapped>>
vars == <<sentVars, fixedVars, rankVars, backfillVars>>

---------------------------------------------------------------------------
(* Bounds of the model.                                                    *)

\* longest generated text handed to chunk_by_sentences
MaxSentLen == 4
\* largest generated max_chars
MaxChars == 3
\* longest generated text handed to chunk_fixed_size
MaxFixedLen == 4
\* largest generated chunk_size
MaxChunkSize == 3
\* largest generated overlap
MaxOverlap == 3
\* most candidate chunks handed to the ranking loop
MaxCands == 3
\* largest generated top_k
MaxTopK == 3
\* rows of the table document_chunks
NChunks == 3
\* the limit of fetch_chunks_without_embedding (main passes 50), scaled down
Limit == 2

---------------------------------------------------------------------------
(* Strings.                                                                *)

\* characters str.split(), str.strip() and the regex class \s treat as whitespace
Whitespace == {" ", "\n"}

IsSpace(c) == c \in Whitespace

\* the regex class [.!?]
IsTerminator(c) == c \in {".", "!", "?"}

Min(a, b) == IF a <= b THEN a ELSE b

SeqsUpTo(S, n) == UNION {[1..k -> S] : k \in 0..n}

\* Python's s[i:j] for 0 <= i, with j clipped to len(s)
Slice(s, i, j) == SubSeq(s, i + 1, Min(j, Len(s)))

RECURSIVE LStrip(_)
LStrip(s) == IF s # <<>> /\ IsSpace(Head(s)) THEN LStrip(Tail(s)) ELSE s

RECURSIVE RStrip(_)
RStrip(s) ==
    IF s # <<>> /\ IsSpace(s[Len(s)]) THEN RStrip(SubSeq(s, 1, Len(s) - 1)) ELSE s

\* str.strip()
Strip(s) == RStrip(LStrip(s))

\* the readable form of a character sequence
RECURSIVE Flat(_)
Flat(s) == IF s = <<>> THEN "" ELSE Head(s) \o Flat(Tail(s))

\* str.split(): the maximal runs of non-whitespace characters
RECURSIVE SplitWords(_, _)
SplitWords(s, cur) ==
    IF s = <<>> THEN (IF cur = <<>> THEN <<>> ELSE <<cur>>)
    ELSE IF IsSpace(Head(s))
         THEN (IF cur = <<>> THEN <<>> ELSE <<cur>>) \o SplitWords(Tail(s), <<>>)
         ELSE SplitWords(Tail(s), Append(cur, Head(s)))

\* " ".join(words)
RECURSIVE JoinSpace(_)
JoinSpace(words) ==
    IF words = <<>> THEN <<>>
    ELSE IF Len(words) = 1 THEN words[1]
    ELSE words[1] \o <<" ">> \o JoinSpace(Tail(words))

\* " ".join(text.split())
Clean(text) == JoinSpace(SplitWords(text, <<>>))

\* first index >= i of s that holds no whitespace (Len(s) + 1 when none)
RECURSIVE SkipSpaces(_, _)
SkipSpaces(s, i) ==
    IF i <= Len(s) /\ IsSpace(s[i]) THEN SkipSpaces(s, i + 1) ELSE i

\* re.split(r'(?<=[.!?])\s+', s): a match is a whole whitespace run that directly
\* follows a terminator; the pieces between the matches are returned
RECURSIVE SplitFrom(_, _, _)
SplitFrom(s, i, cur) ==
    IF i > Len(s) THEN <<cur>>
    ELSE IF IsSpace(s[i]) /\ i > 1 /\ IsTerminator(s[i - 1])
         THEN <<cur>> \o SplitFrom(s, SkipSpaces(s, i), <<>>)
         ELSE SplitFrom(s, i + 1, Append(cur, s[i]))

SplitSentences(s) == SplitFrom(s, 1, <<>>)

---------------------------------------------------------------------------
(* chunk_by_sentences                                                      *)

\* the text of the documented example, "Hi. World is big. X."
ExampleSentText ==
    <<"H", "i", ".", " ", "W", "o", "r", "l", "d", " ", "i", "s", " ",
      "b", "i", "g", ".", " ", "X", ".">>

SentAlphabet == {"a", ".", "?", " ", "\n"}

SentTexts == SeqsUpTo(SentAlphabet, MaxSentLen) \cup {ExampleSentText}

\* the generated limits, and the max_chars of the documented example
SentLimits == (1..MaxChars) \cup {10}

\* a mutant of ForceSplit: the slices are one character narrower than max_chars
RECURSIVE ForceSplitNarrow(_, _, _)
ForceSplitNarrow(s, i, max_chars) ==
    IF i >= Len(s) THEN <<>>
    ELSE LET w == IF max_chars > 1 THEN max_chars - 1 ELSE 1
             part == Strip(Slice(s, i, i + w))
         IN (IF part # <<>> THEN <<part>> ELSE <<>>)
                \o ForceSplitNarrow(s, i + w, max_chars)

\* for i in range(0, len(s), max_chars): the trimmed non-empty s[i:i+max_chars]
RECURSIVE ForceSplit(_, _, _)
ForceSplit(s, i, max_chars) ==
    IF i >= Len(s) THEN <<>>
    ELSE LET part == Strip(Slice(s, i, i + max_chars))
         IN (IF part # <<>> THEN <<part>> ELSE <<>>)
                \o ForceSplit(s, i + max_chars, max_chars)

\* a mutant of Overflows: the joining space is not counted
OverflowsNoSpace(current, s, max_chars) ==
    current # <<>> /\ Len(current) + Len(s) > max_chars

\* current and (len(current) + 1 + len(s)) > max_chars
Overflows(current, s, max_chars) ==
    current # <<>> /\ Len(current) + 1 + Len(s) > max_chars

\* lines 63-70: normalise, return [] on empty text, else split into sentences
SentStart ==
    /\ sPc = "start"
    /\ LET cleaned == Clean(sText)
       IN IF cleaned = <<>>
          THEN /\ sPc' = "done"
               /\ UNCHANGED <<sSentences, sCurrent, sChunks>>
          ELSE /\ sPc' = "loop"
               /\ sSentences' = SplitSentences(cleaned)
               /\ sCurrent' = <<>>
               /\ sChunks' = <<>>
    /\ UNCHANGED <<sText, sMaxChars, fixedVars, rankVars, backfillVars>>

\* lines 72-91: one iteration of the loop over the sentences
SentPack ==
    /\ sPc = "loop"
    /\ sSentences # <<>>
    /\ LET s == Strip(Head(sSentences))
       IN IF s = <<>>
          THEN UNCHANGED <<sCurrent, sChunks>>
          ELSE IF Len(s) > sMaxChars
          THEN /\ sChunks' = (IF sCurrent # <<>>
                                THEN Append(sChunks, Strip(sCurrent))
                                ELSE sChunks) \o ForceSplit(s, 0, sMaxChars)
               /\ sCurrent' = <<>>
          ELSE IF Overflows(sCurrent, s, sMaxChars)
          THEN /\ sChunks' = Append(sChunks, Strip(sCurrent))
               /\ sCurrent' = s
          ELSE /\ sCurrent' = (IF sCurrent # <<>>
                                 THEN Strip(sCurrent \o <<" ">> \o s)
                                 ELSE s)
               /\ UNCHANGED sChunks
    /\ sSentences' = Tail(sSentences)
    /\ UNCHANGED <<sText, sMaxChars, sPc, fixedVars, rankVars, backfillVars>>

\* lines 93-96: flush the accumulator and return
SentFinish ==
    /\ sPc = "loop"
    /\ sSentences = <<>>
    /\ sChunks' = (IF sCurrent # <<>> THEN Append(sChunks, Strip(sCurrent)) ELSE sChunks)
    /\ sCurrent' = <<>>
    /\ sPc' = "done"
    /\ UNCHANGED <<sText, sMaxChars, sSentences, fixedVars, rankVars, backfillVars>>

SentIdle ==
    /\ sText = <<>>
    /\ sMaxChars = 1
    /\ sSentences = <<>>
    /\ sCurrent = <<>>
    /\ sChunks = <<>>
    /\ sPc = "idle"

FixedIdle ==
    /\ fText = <<>>
    /\ fChunkSize = 1
    /\ fOverlap = 0
    /\ fStart = 0
    /\ fChunks = <<>>
    /\ fPc = "idle"

RankIdle ==
    /\ rQuery = <<>>
    /\ rChunks = <<>>
    /\ rTopK = 1
    /\ rNext = 1
    /\ rScored = <<>>
    /\ rSkipped = 0
    /\ rOut = <<>>
    /\ rPc = "idle"

\* the backfill processes that may run against the one store
Runs == {"A", "B"}

\* the exit status and the totals a run has reported: none while it runs
NoResult == [rc |-> -1, report |-> <<>>]

RunsIdle ==
    /\ pc = [r \in Runs |-> "idle"]
    /\ rows = [r \in Runs |-> <<>>]
    /\ pos = [r \in Runs |-> 1]
    /\ vec = [r \in Runs |-> <<>>]
    /\ updated = [r \in Runs |-> 0]
    /\ skipped = [r \in Runs |-> 0]
    /\ out = [r \in Runs |-> NoResult]

BackfillIdle ==
    /\ store = <<>>
    /\ RunsIdle
    /\ nwrites = <<>>
    /\ overlapped = FALSE

InitSent ==
    /\ sText \in SentTexts
    /\ sMaxChars \in SentLimits
    /\ sSentences = <<>>
    /\ sCurrent = <<>>
    /\ sChunks = <<>>
    /\ sPc = "start"
    /\ FixedIdle
    /\ RankIdle
    /\ BackfillIdle

NextSent == SentStart \/ SentPack \/ SentFinish

SpecSent == InitSent /\ [][NextSent]_vars

---------------------------------------------------------------------------
(* chunk_fixed_size                                                        *)

\* the text of the documented example, "abcdefghij"
ExampleFixedText == <<"a", "b", "c", "d", "e", "f", "g", "h", "i", "j">>

FixedAlphabet == {"a", "b", " "}

FixedTexts == SeqsUpTo(FixedAlphabet, MaxFixedLen) \cup {ExampleFixedText}

\* the generated sizes, and the chunk_size of the documented example
FixedSizes == (1..MaxChunkSize) \cup {4}

FixedOverlaps == 0..MaxOverlap

\* the list of chunks grows without limit in a run that never leaves the loop:
\* the exploration follows a run for one iteration more than the longest run
\* that advances by at least one character per iteration can take
LoopCap(text) == Len(text) + 1

\* a mutant of NextStart: the overlap is dropped, the windows abut
NextStartNoOverlap(start, chunk_size, overlap) == start + chunk_size

\* lines 48, 52-55: start = end - overlap, clamped to 0 when negative
NextStart(start, chunk_size, overlap) ==
    LET end == start + chunk_size
        next == end - overlap
    IN IF next < 0 THEN 0 ELSE next

\* lines 47-55: one iteration of the while loop
FixedStep ==
    /\ fPc = "loop"
    /\ fStart < Len(fText)
    /\ Len(fChunks) < LoopCap(fText)
    /\ LET end == fStart + fChunkSize
           chunk == Strip(Slice(fText, fStart, end))
       IN fChunks' = (IF chunk # <<>> THEN Append(fChunks, chunk) ELSE fChunks)
    /\ fStart' = NextStart(fStart, fChunkSize, fOverlap)
    /\ UNCHANGED <<fText, fChunkSize, fOverlap, fPc, sentVars, rankVars, backfillVars>>

\* lines 47, 57: the loop condition fails, the chunks are returned
FixedReturn ==
    /\ fPc = "loop"
    /\ fStart >= Len(fText)
    /\ fPc' = "done"
    /\ UNCHANGED <<fText, fChunkSize, fOverlap, fStart, fChunks, sentVars, rankVars, backfillVars>>

\* lines 43-45
InitFixed ==
    /\ fText \in FixedTexts
    /\ fChunkSize \in FixedSizes
    /\ fOverlap \in FixedOverlaps
    /\ fStart = 0
    /\ fChunks = <<>>
    /\ fPc = "loop"
    /\ SentIdle
    /\ RankIdle
    /\ BackfillIdle

NextFixed == FixedStep \/ FixedReturn

\* a call runs to its end unless its loop never exits: the interpreter keeps
\* executing the next iteration
SpecFixed == InitFixed /\ [][NextFixed]_vars /\ WF_vars(NextFixed)

---------------------------------------------------------------------------
(* Embedding values.                                                       *)

\* An element of a JSON list or of an embedder response: a finite number v
\* ("num"), a string float() parses to v ("str"), a non-finite float, which
\* float() returns unchanged ("nan"), or a value float() raises on ("junk")
Num(v) == [kind |-> "num", v |-> v]
NumStr(v) == [kind |-> "str", v |-> v]
NaN == [kind |-> "nan", v |-> 0]
Junk == [kind |-> "junk", v |-> 0]

\* float(x) returns
Coercible(x) == x.kind # "junk"

\* float(x), for a coercible x
ToFloat(x) == IF x.kind = "str" THEN Num(x.v) ELSE x

\* [float(x) for x in xs]: the list of floats, or the exception of the first
\* element float() raises on
FloatList(xs) ==
    IF \A i \in 1..Len(xs) : Coercible(xs[i])
    THEN [ok |-> TRUE, vec |-> [i \in 1..Len(xs) |-> ToFloat(xs[i])]]
    ELSE [ok |-> FALSE, vec |-> <<>>]

\* The embedding column (jsonb) as Python receives it: None, a dict, or a list
Null == [kind |-> "null", vals |-> <<>>]
EmptyObject == [kind |-> "object", vals |-> <<>>]
JsonList(xs) == [kind |-> "list", vals |-> xs]

---------------------------------------------------------------------------
(* search.py: cosine_similarity and the ranking loop of main               *)

\* A score is the float cosine_similarity returns.  The cosine r is kept exactly,
\* as the fraction num/den = sgn(r) * r^2 (den > 0), which orders as r does;
\* float("-inf") is the score with inf set
NegInf == [inf |-> TRUE, num |-> 0, den |-> 1]

RECURSIVE Dot(_, _)
Dot(a, b) == IF a = <<>> THEN 0 ELSE a[1].v * b[1].v + Dot(Tail(a), Tail(b))

Sign(x) == IF x > 0 THEN 1 ELSE IF x < 0 THEN -1 ELSE 0

\* lines 34-45
cosine_similarity(a, b) ==
    IF a = <<>> \/ b = <<>> \/ Len(a) # Len(b) THEN NegInf
    ELSE LET dot == Dot(a, b)
             na == Dot(a, a)
             nb == Dot(b, b)
         IN IF na * nb = 0 THEN NegInf
            ELSE [inf |-> FALSE, num |-> Sign(dot) * dot * dot, den |-> na * nb]

\* x < y on scores
ScoreLess(x, y) ==
    IF y.inf THEN FALSE
    ELSE IF x.inf THEN TRUE
    ELSE x.num * y.den < y.num * x.den

ScoreEqual(x, y) == ~ScoreLess(x, y) /\ ~ScoreLess(y, x)

\* a mutant of InsertDesc: the entry goes before the entries of equal score
InsertDescBeforeTies(sorted, e) ==
    LET keep == {i \in 0..Len(sorted) :
                    \A j \in 1..i : ScoreLess(e.score, sorted[j].score)}
        n == CHOOSE i \in keep : \A k \in keep : k <= i
    IN SubSeq(sorted, 1, n) \o <<e>> \o SubSeq(sorted, n + 1, Len(sorted))

\* the place of one more entry in a list sorted by score descending: after every
\* entry whose score is not less than its own
InsertDesc(sorted, e) ==
    LET keep == {i \in 0..Len(sorted) :
                    \A j \in 1..i : ~ScoreLess(sorted[j].score, e.score)}
        n == CHOOSE i \in keep : \A k \in keep : k <= i
    IN SubSeq(sorted, 1, n) \o <<e>> \o SubSeq(sorted, n + 1, Len(sorted))

\* line 173: scored.sort(key=lambda x: x[0], reverse=True), a stable sort: entries
\* of equal score keep the order they were appended in
RECURSIVE SortDesc(_)
SortDesc(scored) ==
    IF scored = <<>> THEN <<>>
    ELSE InsertDesc(SortDesc(SubSeq(scored, 1, Len(scored) - 1)), scored[Len(scored)])

\* the embeddings a candidate row is drawn from
CandEmbeddings ==
    { Null, JsonList(<<>>),
      JsonList(<<Num(1)>>),
      JsonList(<<Num(1), Num(0)>>), JsonList(<<Num(2), Num(0)>>),
      JsonList(<<Num(-1), Num(0)>>),
      JsonList(<<Num(0), Num(0)>>),
      JsonList(<<NumStr(1), Num(1)>>), JsonList(<<Num(1), Junk>>) }

\* the query embeddings embed_text returns
QueryVectors == { <<Num(1), Num(0)>>, <<Num(1), Num(1)>> }

\* lines 149-155: no chunk at all ends the search, else the loop starts
RankBegin ==
    /\ rPc = "start"
    /\ IF rChunks = <<>>
       THEN rPc' = "done"
       ELSE rPc' = "loop"
    /\ UNCHANGED <<rQuery, rChunks, rTopK, rNext, rScored, rSkipped, rOut,
                   sentVars, fixedVars, backfillVars>>

\* lines 157-171: one iteration of the loop over the chunks
RankScore ==
    /\ rPc = "loop"
    /\ rNext <= Len(rChunks)
    /\ LET emb == rChunks[rNext]
           emb_vec == FloatList(emb.vals)
       IN IF emb.kind # "list" \/ Len(emb.vals) = 0 \/ ~emb_vec.ok
          THEN /\ rSkipped' = rSkipped + 1
               /\ UNCHANGED rScored
          ELSE /\ rScored' = Append(rScored,
                       [score |-> cosine_similarity(rQuery, emb_vec.vec), c |-> rNext])
               /\ UNCHANGED rSkipped
    /\ rNext' = rNext + 1
    /\ UNCHANGED <<rQuery, rChunks, rTopK, rOut, rPc, sentVars, fixedVars,
                   backfillVars>>

\* lines 173-189: sort, and print the first top_k entries
RankSort ==
    /\ rPc = "loop"
    /\ rNext > Len(rChunks)
    /\ rScored' = SortDesc(rScored)
    /\ rOut' = SubSeq(rScored', 1, Min(rTopK, Len(rScored')))
    /\ rPc' = "done"
    /\ UNCHANGED <<rQuery, rChunks, rTopK, rNext, rSkipped, sentVars, fixedVars,
                   backfillVars>>

InitRank ==
    /\ rQuery \in QueryVectors
    /\ rChunks \in SeqsUpTo(CandEmbeddings, MaxCands)
    /\ rTopK \in 1..MaxTopK
    /\ rNext = 1
    /\ rScored = <<>>
    /\ rSkipped = 0
    /\ rOut = <<>>
    /\ rPc = "start"
    /\ SentIdle
    /\ FixedIdle
    /\ BackfillIdle

NextRank == RankBegin \/ RankScore \/ RankSort

SpecRank == InitRank /\ [][NextRank]_vars

---------------------------------------------------------------------------
(* embedder.py and db.py: the backfill of missing embeddings               *)

Ids == 1..NChunks

StoredRow(chunk_text, embedding) ==
    [chunk_text |-> chunk_text, embedding |-> embedding]

\* the rows the table may hold before any backfill: texts "a", " " and "", and
\* embeddings NULL, {}, [] and [1.0]
StoredRows ==
    { StoredRow(<<"a">>, Null), StoredRow(<<"a">>, EmptyObject),
      StoredRow(<<"a">>, JsonList(<<>>)), StoredRow(<<"a">>, JsonList(<<Num(1)>>)),
      StoredRow(<<" ">>, EmptyObject), StoredRow(<<>>, Null) }

\* What client.models.embed_content does in one call: it raises, or it returns a
\* response whose embeddings[0].values is None or a list
Raises == [kind |-> "raise", vals |-> <<>>]

EmbedResponses ==
    { Raises, Null, JsonList(<<>>), JsonList(<<Num(1)>>), JsonList(<<NumStr(1)>>),
      JsonList(<<NaN>>), JsonList(<<Junk>>) }

\* a mutant of IsMissing: the test for a present embedding
IsPresent(embedding) == embedding # Null

\* embedder.py lines 26-28: embedding IS NULL OR = '{}'::jsonb OR = '[]'::jsonb
IsMissing(embedding) ==
    embedding = Null \/ embedding = EmptyObject \/ embedding = JsonList(<<>>)

\* the ids of `ids`, ascending
RECURSIVE Ascending(_)
Ascending(ids) ==
    IF ids = {} THEN <<>>
    ELSE LET m == CHOOSE x \in ids : \A y \in ids : x <= y
         IN <<m>> \o Ascending(ids \ {m})

\* a mutant of fetch_chunks_without_embedding: ORDER BY id DESC
fetch_chunks_descending(table, limit) ==
    LET ids == Ascending({id \in DOMAIN table : IsMissing(table[id].embedding)})
        n == Len(ids)
        first == [i \in 1..Min(limit, n) |-> ids[n + 1 - i]]
    IN [i \in 1..Len(first) |->
           [id |-> first[i], chunk_text |-> table[first[i]].chunk_text]]

\* embedder.py lines 13-40: SELECT id, chunk_text ... ORDER BY id LIMIT limit
fetch_chunks_without_embedding(table, limit) ==
    LET ids == Ascending({id \in DOMAIN table : IsMissing(table[id].embedding)})
        first == SubSeq(ids, 1, Min(limit, Len(ids)))
    IN [i \in 1..Len(first) |->
           [id |-> first[i], chunk_text |-> table[first[i]].chunk_text]]

\* embedder.py lines 43-67: the floats of the response, or a RuntimeError
embed_text(resp) ==
    IF resp.kind = "raise" THEN [ok |-> FALSE, vec |-> <<>>]
    ELSE IF resp.kind # "list" \/ Len(resp.vals) = 0 THEN [ok |-> FALSE, vec |-> <<>>]
    ELSE FloatList(resp.vals)

\* db.py lines 29-42: UPDATE document_chunks SET embedding = %s WHERE id = %s
update_embedding(table, chunk_id, embedding) ==
    [table EXCEPT ![chunk_id].embedding = JsonList(embedding)]

\* embedder.py line 91: not chunk_text or not str(chunk_text).strip()
IsBlank(chunk_text) == chunk_text = <<>> \/ Strip(chunk_text) = <<>>

Active(r) == pc[r] \in {"loop", "write"}

\* the row a run is at
Row(r) == rows[r][pos[r]]

\* a mutant of Failure: the totals counted so far are reported with the error
FailureWithTotals(r) == [rc |-> 1, report |-> <<updated[r], skipped[r]>>]

\* embedder.py lines 109-111: the error is printed and main returns 1
Failure(r) == [rc |-> 1, report |-> <<>>]

\* embedder.py lines 80-87: the selection; no row ends the run with status 0
Select(r) ==
    /\ pc[r] = "idle"
    /\ rows' = [rows EXCEPT ![r] = fetch_chunks_without_embedding(store, Limit)]
    /\ IF rows'[r] = <<>>
       THEN /\ pc' = [pc EXCEPT ![r] = "done"]
            /\ out' = [out EXCEPT ![r] = [rc |-> 0, report |-> <<>>]]
       ELSE /\ pc' = [pc EXCEPT ![r] = "loop"]
            /\ out' = out
    /\ overlapped' = (overlapped \/ \E q \in Runs \ {r} : Active(q))
    /\ UNCHANGED <<store, pos, vec, updated, skipped, nwrites,
                   sentVars, fixedVars, rankVars>>

\* embedder.py lines 89-94: a row of empty text is counted and passed over
Skip(r) ==
    /\ pc[r] = "loop"
    /\ pos[r] <= Len(rows[r])
    /\ IsBlank(Row(r).chunk_text)
    /\ skipped' = [skipped EXCEPT ![r] = @ + 1]
    /\ pos' = [pos EXCEPT ![r] = @ + 1]
    /\ UNCHANGED <<store, pc, rows, vec, updated, out, nwrites, overlapped,
                   sentVars, fixedVars, rankVars>>

\* embedder.py line 96: embed_text returns the vector
EmbedOk(r, resp) ==
    /\ pc[r] = "loop"
    /\ pos[r] <= Len(rows[r])
    /\ ~IsBlank(Row(r).chunk_text)
    /\ embed_text(resp).ok
    /\ vec' = [vec EXCEPT ![r] = embed_text(resp).vec]
    /\ pc' = [pc EXCEPT ![r] = "write"]
    /\ UNCHANGED <<store, rows, pos, updated, skipped, out, nwrites, overlapped,
                   sentVars, fixedVars, rankVars>>

\* embedder.py lines 96, 109-111: embed_text raises, the run ends
EmbedFail(r, resp) ==
    /\ pc[r] = "loop"
    /\ pos[r] <= Len(rows[r])
    /\ ~IsBlank(Row(r).chunk_text)
    /\ ~embed_text(resp).ok
    /\ pc' = [pc EXCEPT ![r] = "failed"]
    /\ out' = [out EXCEPT ![r] = Failure(r)]
    /\ UNCHANGED <<store, rows, pos, vec, updated, skipped, nwrites, overlapped,
                   sentVars, fixedVars, rankVars>>

\* embedder.py lines 98-104: the vector is written and counted
WriteOk(r) ==
    /\ pc[r] = "write"
    /\ store' = update_embedding(store, Row(r).id, vec[r])
    /\ nwrites' = [nwrites EXCEPT ![Row(r).id] = @ + 1]
    /\ updated' = [updated EXCEPT ![r] = @ + 1]
    /\ pos' = [pos EXCEPT ![r] = @ + 1]
    /\ vec' = [vec EXCEPT ![r] = <<>>]
    /\ pc' = [pc EXCEPT ![r] = "loop"]
    /\ UNCHANGED <<rows, skipped, out, overlapped, sentVars, fixedVars, rankVars>>

\* embedder.py lines 98-101, 109-111: update_embedding raises, the run ends
WriteFail(r) ==
    /\ pc[r] = "write"
    /\ pc' = [pc EXCEPT ![r] = "failed"]
    /\ out' = [out EXCEPT ![r] = Failure(r)]
    /\ UNCHANGED <<store, rows, pos, vec, updated, skipped, nwrites, overlapped,
                   sentVars, fixedVars, rankVars>>

\* embedder.py lines 106-107: the loop is over, the totals are printed
Finish(r) ==
    /\ pc[r] = "loop"
    /\ pos[r] > Len(rows[r])
    /\ pc' = [pc EXCEPT ![r] = "done"]
    /\ out' = [out EXCEPT ![r] = [rc |-> 0, report |-> <<updated[r], skipped[r]>>]]
    /\ UNCHANGED <<store, rows, pos, vec, updated, skipped, nwrites, overlapped,
                   sentVars, fixedVars, rankVars>>

\* embedder.py lines 114-115: the script is started again, as a new process
Restart(r) ==
    /\ pc[r] \in {"done", "failed"}
    /\ pc' = [pc EXCEPT ![r] = "idle"]
    /\ rows' = [rows EXCEPT ![r] = <<>>]
    /\ pos' = [pos EXCEPT ![r] = 1]
    /\ vec' = [vec EXCEPT ![r] = <<>>]
    /\ updated' = [updated EXCEPT ![r] = 0]
    /\ skipped' = [skipped EXCEPT ![r] = 0]
    /\ out' = [out EXCEPT ![r] = NoResult]
    /\ UNCHANGED <<store, nwrites, overlapped, sentVars, fixedVars, rankVars>>

InitStore ==
    /\ store \in [Ids -> StoredRows]
    /\ nwrites = [id \in Ids |-> 0]
    /\ overlapped = FALSE

Init ==
    /\ InitStore
    /\ RunsIdle
    /\ SentIdle
    /\ FixedIdle
    /\ RankIdle

Next ==
    \E r \in Runs :
        \/ Select(r)
        \/ Skip(r)
        \/ \E resp \in EmbedResponses : EmbedOk(r, resp)
        \/ \E resp \in EmbedResponses : EmbedFail(r, resp)
        \/ WriteOk(r)
        \/ WriteFail(r)
        \/ Finish(r)

\* two backfill processes, each started at any time, with an embedder and a
\* store that may fail
Spec == Init /\ [][Next]_vars

\* the responses embed_text returns a vector for
GoodResponses == {resp \in EmbedResponses : embed_text(resp).ok}

\* the one process whose runs follow each other
Serial == "A"

NextSerial ==
    \/ Select(Serial)
    \/ Skip(Serial)
    \/ \E resp \in GoodResponses : EmbedOk(Serial, resp)
    \/ WriteOk(Serial)
    \/ Finish(Serial)
    \/ Restart(Serial)

\* backfill run after run, one at a time, with an embedder and a store that
\* never fail: a started run takes its next step, and a finished run is followed
\* by the next one
SpecSerial == Init /\ [][NextSerial]_vars /\ WF_vars(NextSerial)

---------------------------------------------------------------------------
(* Claims about chunk_by_sentences.                                        *)

FlatAll(chunks) == [i \in 1..Len(chunks) |-> Flat(chunks[i])]

ExampleSentCall == sText = ExampleSentText /\ sMaxChars = 10

ExampleSentences ==
    <<<<"H", "i", ".">>,
      <<"W", "o", "r", "l", "d", " ", "i", "s", " ", "b", "i", "g", ".">>,
      <<"X", ".">>>>

\* C1 as stated: chunk_by_sentences("Hi. World is big. X.", 10) returns
\* ["Hi.", "World is", "big.", "X."]
C1_ExampleAsStated ==
    (ExampleSentCall /\ sPc = "done")
        => FlatAll(sChunks) = <<"Hi.", "World is", "big.", "X.">>

\* C1 amended: the sentences of the example are "Hi.", "World is big." and "X.",
\* and the call returns ["Hi.", "World is b", "ig.", "X."]: the oversized middle
\* sentence is flushed apart from its neighbours and cut into the fixed-width
\* slices s[0:10] and s[10:20]
C1_ExampleSlices ==
    ExampleSentCall =>
        /\ sPc = "loop" =>
              sSentences = SubSeq(ExampleSentences, 4 - Len(sSentences), 3)
        /\ sPc = "done" =>
              FlatAll(sChunks) = <<"Hi.", "World is b", "ig.", "X.">>

C1_Witness == ExampleSentCall /\ sPc = "done" /\ Len(sChunks) = 4

IsTrimmed(c) == c # <<>> /\ ~IsSpace(c[1]) /\ ~IsSpace(c[Len(c)])

\* C2: every chunk chunk_by_sentences has emitted is non-empty, trimmed and at
\* most max_chars long, the accumulator never exceeds max_chars, and a text that
\* is empty or all whitespace returns the empty list
C2_ChunksWithinLimit ==
    sPc \in {"loop", "done"} =>
        /\ \A i \in 1..Len(sChunks) :
              IsTrimmed(sChunks[i]) /\ Len(sChunks[i]) <= sMaxChars
        /\ Len(sCurrent) <= sMaxChars
        /\ (sPc = "done" /\ \A i \in 1..Len(sText) : IsSpace(sText[i]))
              => sChunks = <<>>

\* a finished run that packed two sentences into one chunk of exactly max_chars
\* characters
C2_Witness ==
    /\ sPc = "done"
    /\ \E i \in 1..Len(sChunks) :
          /\ Len(sChunks[i]) = sMaxChars
          /\ \E j \in 1..Len(sChunks[i]) : sChunks[i][j] = " "

---------------------------------------------------------------------------
(* Claims about chunk_fixed_size.                                          *)

\* the k-th window (k = 0, 1, ...) of the sliding window, trimmed
Window(text, chunk_size, overlap, k) ==
    LET step == chunk_size - overlap
    IN Strip(Slice(text, k * step, k * step + chunk_size))

\* the trimmed non-empty windows k = 0 .. n-1, in order
WindowsBelow(text, chunk_size, overlap, n) ==
    SelectSeq([k \in 1..n |-> Window(text, chunk_size, overlap, k - 1)],
              LAMBDA c : c # <<>>)

\* the number of k >= 0 with k * step < len
WindowCount(len, step) == (len + step - 1) \div step

FixedContract == fPc # "idle" /\ fOverlap < fChunkSize

C3_Windows ==
    FixedContract =>
        LET step == fChunkSize - fOverlap
        IN /\ fStart % step = 0
           /\ fChunks = WindowsBelow(fText, fChunkSize, fOverlap,
                                     Min(fStart \div step, WindowCount(Len(fText), step)))
           /\ fPc = "done" =>
                 /\ fChunks = WindowsBelow(fText, fChunkSize, fOverlap,
                                           WindowCount(Len(fText), step))
                 /\ \A i \in 1..Len(fChunks) : IsTrimmed(fChunks[i])
                 /\ \A i \in 1..Len(fText) :
                       ~IsSpace(fText[i]) =>
                          \E k \in 0..(Len(fText) - 1) :
                             /\ k * step < i /\ i <= k * step + fChunkSize
                             /\ \E j \in 1..Len(fChunks) :
                                   fChunks[j] = Window(fText, fChunkSize, fOverlap, k)

\* C3: with 0 <= overlap < chunk_size, chunk_fixed_size terminates and returns, in
\* order, exactly the trimmed non-empty windows text[k*step : k*step + chunk_size]
\* for k*step < len(text); every chunk is non-empty and trimmed and every
\* non-whitespace character lies in an emitted chunk
C3_FixedWindows == [](C3_Windows) /\ (FixedContract ~> fPc = "done")

\* the documented example has returned its four chunks
C3_Witness ==
    /\ fPc = "done"
    /\ fText = ExampleFixedText /\ fChunkSize = 4 /\ fOverlap = 1
    /\ FlatAll(fChunks) = <<"abcd", "defg", "ghij", "j">>

\* C9: chunk_fixed_size terminates for every non-empty text, chunk_size > 0 and
\* overlap >= 0, overlap >= chunk_size included: with the clamp, every iteration
\* of the loop moves the start offset forward, so that it reaches len(text).
\* (The offset changes by the same chunk_size - overlap in every iteration and the
\* loop condition reads nothing else that changes: an iteration that does not
\* move it forward is repeated for ever.)
C9_StartReachesEnd == [][FixedStep => fStart' > fStart]_vars

---------------------------------------------------------------------------
(* Claims about the ranking.                                               *)

\* a candidate with a valid embedding: a non-empty list whose every element
\* coerces to a number
ValidCand(i) ==
    /\ rChunks[i].kind = "list"
    /\ rChunks[i].vals # <<>>
    /\ \A j \in 1..Len(rChunks[i].vals) : rChunks[i].vals[j].kind \in {"num", "str"}

ValidCands == {i \in 1..Len(rChunks) : ValidCand(i)}

\* the cosine of the query and candidate i, from the numbers its elements denote
CandScore(i) ==
    cosine_similarity(rQuery, [j \in 1..Len(rChunks[i].vals) |-> Num(rChunks[i].vals[j].v)])

\* candidate k comes before candidate i: a higher score, or the same and earlier
Before(k, i) ==
    \/ ScoreLess(CandScore(i), CandScore(k))
    \/ ScoreEqual(CandScore(i), CandScore(k)) /\ k < i

\* C4: the ranking output is the first top_k of the validly-embedded candidates
\* in the order of score descending, equal scores in input order; its length is
\* min(top_k, number of valid candidates); no invalid candidate is in it, and
\* every call ends
C4_RankingExact ==
    /\ rPc = "done" =>
         /\ Len(rOut) = Min(rTopK, Cardinality(ValidCands))
         /\ \A j \in 1..Len(rOut) :
               /\ rOut[j].c \in ValidCands
               /\ rOut[j].score = CandScore(rOut[j].c)
               /\ Cardinality({k \in ValidCands : Before(k, rOut[j].c)}) = j - 1
         /\ rSkipped = Len(rChunks) - Cardinality(ValidCands)
    /\ rPc = "loop" => \A j \in 1..Len(rScored) : rScored[j].c \in ValidCands

\* a finished search that skipped an invalid candidate and cut the output to
\* top_k, the earlier of two differently-embedded candidates of the same top
\* score staying in it
C4_Witness ==
    /\ rPc = "done"
    /\ rSkipped > 0
    /\ Len(rOut) = rTopK /\ rTopK < Cardinality(ValidCands)
    /\ ~rOut[1].score.inf
    /\ \E k \in ValidCands :
          /\ k > rOut[1].c
          /\ ScoreEqual(CandScore(k), rOut[1].score)
          /\ rChunks[k] # rChunks[rOut[1].c]

---------------------------------------------------------------------------
(* Claims about the backfill.                                              *)

\* the rows of its selection a run has passed
Passed(r) == {i \in 1..Len(rows[r]) : i < pos[r]}

WrittenBy(r) == {i \in Passed(r) : ~IsBlank(rows[r][i].chunk_text)}

SkippedBy(r) == {i \in Passed(r) : IsBlank(rows[r][i].chunk_text)}

HasEmbedding(id) == store[id].embedding \notin {Null, EmptyObject, JsonList(<<>>)}

\* a failed run stopped at the row that failed, having counted the rows before
\* it, whose embeddings are in the store
StoppedAtFailure(r) ==
    /\ pos[r] <= Len(rows[r])
    /\ ~IsBlank(Row(r).chunk_text)
    /\ updated[r] = Cardinality(WrittenBy(r))
    /\ skipped[r] = Cardinality(SkippedBy(r))
    /\ \A i \in WrittenBy(r) : HasEmbedding(rows[r][i].id)

\* a failed run takes no further step
NoStepAfterFailure(r) ==
    pc[r] = "failed" =>
        /\ pc'[r] = "failed" /\ rows'[r] = rows[r] /\ pos'[r] = pos[r]
        /\ updated'[r] = updated[r] /\ skipped'[r] = skipped[r] /\ out'[r] = out[r]

\* C5 as stated: a run that fails at a selected chunk stops there, and returns
\* updated/skipped counts equal to the chunks it wrote and skipped before
C5_CountsReturnedOnFailure ==
    \A r \in Runs :
        pc[r] = "failed" =>
            /\ StoppedAtFailure(r)
            /\ out[r].report = <<Cardinality(WrittenBy(r)), Cardinality(SkippedBy(r))>>

\* C5 amended: a run that fails at a selected chunk stops there for good, the
\* embeddings it wrote before stay in the store, and it exits with status 1
\* reporting no counts: the totals it had counted are not returned
C5_FailFastNoCounts ==
    /\ [](\A r \in Runs :
              pc[r] = "failed" =>
                  /\ StoppedAtFailure(r)
                  /\ out[r] = [rc |-> 1, report |-> <<>>])
    /\ [][\A r \in Runs : NoStepAfterFailure(r)]_vars

\* a store write that failed on the second chunk of a run, after the first chunk
\* was written and counted, with a chunk of the selection not reached
C5_Witness ==
    \E r \in Runs :
        /\ pc[r] = "failed"
        /\ vec[r] # <<>>
        /\ updated[r] = 1
        /\ pos[r] = 2 /\ Len(rows[r]) > 1

FiniteVector(v) == v # <<>> /\ \A i \in 1..Len(v) : v[i].kind = "num"

\* C6: a vector embed_text returns, and every embedding backfill has written, is
\* non-empty with finite numbers only
C6_OnlyFiniteWritten ==
    /\ \A r \in Runs : pc[r] = "write" => FiniteVector(vec[r])
    /\ \A id \in Ids :
          nwrites[id] > 0 =>
              store[id].embedding.kind = "list" /\ FiniteVector(store[id].embedding.vals)

FullyEmbedded == \A id \in Ids : HasEmbedding(id)

\* C7: a run started on a store in which no embedding is missing selects no row
\* and ends at once with status 0, nothing embedded, written, updated or
\* skipped; the store stays as it is, so the same holds for every later run
C7_NoOpOnEmbeddedStore ==
    [][FullyEmbedded =>
          /\ FullyEmbedded'
          /\ store' = store /\ nwrites' = nwrites
          /\ pc[Serial] = "idle" =>
                /\ rows'[Serial] = <<>>
                /\ pc'[Serial] = "done"
                /\ out'[Serial].rc = 0
                /\ updated'[Serial] = 0 /\ skipped'[Serial] = 0
          /\ pc'[Serial] \in {"idle", "done"}]_vars

\* a run that found nothing to do on a store an earlier run had completed
C7_Witness ==
    /\ FullyEmbedded
    /\ pc[Serial] = "done" /\ rows[Serial] = <<>> /\ out[Serial].rc = 0
    /\ \E id \in Ids : nwrites[id] > 0

\* the ids a run has written
IdsWrittenBy(r) == {rows[r][i].id : i \in WrittenBy(r)}

\* C8: while no run is started during another run, no chunk is written more than
\* once; a chunk written twice was selected and written by both runs
C8_OnceWhileSerialized ==
    \A id \in Ids :
        /\ ~overlapped => nwrites[id] <= 1
        /\ nwrites[id] > 1 => \A r \in Runs : id \in IdsWrittenBy(r)

\* two interleaved runs selected the same chunk while its embedding was missing,
\* and each has written it
C8_Witness ==
    \E id \in Ids :
        /\ nwrites[id] = 2
        /\ overlapped
        /\ \A r \in Runs : id \in IdsWrittenBy(r)

BlankMissing(id) == IsBlank(store[id].chunk_text) /\ ~HasEmbedding(id)

\* a chunk of non-blank text with fewer than Limit blank chunks of missing
\* embedding before it
Reachable(id) ==
    /\ ~IsBlank(store[id].chunk_text)
    /\ Cardinality({j \in Ids : j < id /\ BlankMissing(j)}) < Limit

\* C10 as stated: repeated serialized runs eventually give every chunk of
\* non-blank text an embedding
C10_AllNonBlankEmbedded ==
    <>(\A id \in Ids : ~IsBlank(store[id].chunk_text) => HasEmbedding(id))

\* C10 amended: repeated serialized runs eventually give an embedding to every
\* chunk of non-blank text that has fewer than Limit chunks of blank text and
\* missing embedding before it in id order; every other chunk stays as it is
C10_ReachableEmbedded ==
    /\ <>(\A id \in Ids : Reachable(id) => HasEmbedding(id))
    /\ [][\A id \in Ids : ~Reachable(id) => store'[id] = store[id]]_vars

\* a finished run on a store whose reachable chunks all have an embedding, one
\* written by backfill, while a chunk of blank text still has none
C10_Witness ==
    /\ pc[Serial] = "done"
    /\ \A id \in Ids : Reachable(id) => HasEmbedding(id)
    /\ \E id \in Ids : nwrites[id] > 0
    /\ \E id \in Ids : BlankMissing(id)

=============================================================================
